---------------------------- MODULE Spec2Model ----------------------------
(***************************************************************************)
(* A model of the ABI codec of src/abi.go: the uint64 codec, the bytes     *)
(* codec, the slice-of-bytes codec and the tuple codec.                    *)
(*                                                                         *)
(* A byte buffer is a sequence of numbers in 0..255.  A uint64 (and an int *)
(* of a 64-bit build, in two's complement) is a sequence of four 16-bit    *)
(* limbs, least significant first, so that the arithmetic of the code      *)
(* keeps its 64-bit width.  An outcome of a call is a record               *)
(*   [st |-> "ok" | "err" | "panic", err |-> message, val |-> value].      *)
(***************************************************************************)
EXTENDS Integers, Sequences, FiniteSets, TLC

(***************************************************************************)
(* Bounds of the model.                                                    *)
(***************************************************************************)
\* longest byte sequence handed to an encoder
MaxLen == 33
\* most elements of a list handed to EncodeSliceOfBytes
MaxElts == 2
\* most units of a tuple
MaxUnits == 2
\* most 32-byte words of a buffer received from the wire
MaxWords == 2
\* the largest magnitude of an int that nextMultipleOf32 is called with alone
MaxAbs == 66

(***************************************************************************)
(* 64-bit integers as limbs.                                               *)
(***************************************************************************)
Limb == 256 * 256

\* the uint64 (or non-negative int) of a small natural number
U64Of(n) == <<n % Limb, (n \div Limb) % Limb, 0, 0>>

\* the int of a small integer, negative ones in two's complement
I64Of(n) ==
  IF n >= 0 THEN U64Of(n)
  ELSE LET m == -n - 1
       IN  <<Limb - 1 - (m % Limb), Limb - 1 - ((m \div Limb) % Limb),
             Limb - 1, Limb - 1>>

\* a uint64 below 2^31, or an int in 0..2^31-1, as a number
U64Int(a) == a[1] + Limb * a[2]

\* a + b with uint64 (and int) wrap-around
U64Add(a, b) ==
  LET s1 == a[1] + b[1]
      s2 == a[2] + b[2] + (s1 \div Limb)
      s3 == a[3] + b[3] + (s2 \div Limb)
      s4 == a[4] + b[4] + (s3 \div Limb)
  IN  <<s1 % Limb, s2 % Limb, s3 % Limb, s4 % Limb>>

\* k * a with uint64 wrap-around, k a small natural number
U64Mul(k, a) ==
  LET p1 == k * a[1]
      p2 == k * a[2] + (p1 \div Limb)
      p3 == k * a[3] + (p2 \div Limb)
      p4 == k * a[4] + (p3 \div Limb)
  IN  <<p1 % Limb, p2 % Limb, p3 % Limb, p4 % Limb>>

\* a < b as unsigned numbers
U64Lt(a, b) ==
  \/ a[4] < b[4]
  \/ a[4] = b[4] /\ a[3] < b[3]
  \/ a[4] = b[4] /\ a[3] = b[3] /\ a[2] < b[2]
  \/ a[4] = b[4] /\ a[3] = b[3] /\ a[2] = b[2] /\ a[1] < b[1]

U64Le(a, b) == ~U64Lt(b, a)

\* the sign of an int
I64Neg(a) == a[4] >= 128 * 256

\* a < b as signed numbers
I64Lt(a, b) ==
  IF I64Neg(a) # I64Neg(b) THEN I64Neg(a) ELSE U64Lt(a, b)

\* the decimal digits of a uint64 (fmt's %d)
RECURSIVE U64Str(_)
U64Str(a) ==
  LET r4 == a[4] % 10
      d3 == r4 * Limb + a[3]
      r3 == d3 % 10
      d2 == r3 * Limb + a[2]
      r2 == d2 % 10
      d1 == r2 * Limb + a[1]
      q  == <<d1 \div 10, d2 \div 10, d3 \div 10, a[4] \div 10>>
  IN  IF q = <<0, 0, 0, 0>> THEN ToString(d1 % 10)
      ELSE U64Str(q) \o ToString(d1 % 10)

\* the remainder of Go's n % m (truncated towards zero), small numbers
GoRem(n, m) == IF n >= 0 THEN n % m ELSE -((-n) % m)

\* n % 32 taken on the magnitude of n, the sign dropped
I64Rem32_Magnitude(n) ==
  IF ~I64Neg(n) THEN n[1] % 32
  ELSE (32 - (n[1] % 32)) % 32

\* Go's n % 32 for an int n
I64Rem32(n) ==
  IF ~I64Neg(n) THEN n[1] % 32
  ELSE -((32 - (n[1] % 32)) % 32)

(***************************************************************************)
(* Byte buffers and outcomes.                                              *)
(***************************************************************************)
\* make([]byte, n)
Zeros(n) == [i \in 1..n |-> 0]

\* b[lo:hi] for in-range bounds (Go counts from 0, hi exclusive)
Slice(b, lo, hi) == SubSeq(b, lo + 1, hi)

\* dst := make([]byte, n); copy(dst, src), for n >= len(src): a new buffer
\* of the bytes of src and zeros after them
MakeCopy(n, src) == src \o Zeros(n - Len(src))

Ok(v) == [st |-> "ok", err |-> "", val |-> v]
Err(msg, zero) == [st |-> "err", err |-> msg, val |-> zero]
Panic(msg, zero) == [st |-> "panic", err |-> msg, val |-> zero]
\* if err != nil { return zero, fmt.Errorf(prefix + "%w", err) }: an error is
\* wrapped, a panic unwinds through the caller, a value is passed on
Wrap(prefix, r, zero) ==
  IF r.st = "err" THEN Err(prefix \o r.err, zero)
  ELSE IF r.st = "panic" THEN Panic(r.err, zero)
  ELSE r

\* an isNonZero that finds no byte
isNonZero_Never(b) == FALSE

isNonZero(b) == \E i \in 1..Len(b) : b[i] # 0

(***************************************************************************)
(* The uint64 codec.                                                       *)
(***************************************************************************)
\* PutUint64 writing the least significant byte first
PutUint64_LittleEndian(v) ==
  << v[1] % 256, v[1] \div 256, v[2] % 256, v[2] \div 256,
     v[3] % 256, v[3] \div 256, v[4] % 256, v[4] \div 256 >>

\* binary.BigEndian.PutUint64
PutUint64(v) ==
  << v[4] \div 256, v[4] % 256, v[3] \div 256, v[3] % 256,
     v[2] \div 256, v[2] % 256, v[1] \div 256, v[1] % 256 >>

\* binary.LittleEndian.Uint64
LittleEndianUint64(b) ==
  << b[2] * 256 + b[1], b[4] * 256 + b[3], b[6] * 256 + b[5], b[8] * 256 + b[7] >>

\* binary.BigEndian.Uint64
BigEndianUint64(b) ==
  << b[7] * 256 + b[8], b[5] * 256 + b[6], b[3] * 256 + b[4], b[1] * 256 + b[2] >>

\* EncodeUint64 with the value in the first 8 bytes
EncodeUint64_ValueFirst(v) == PutUint64(v) \o Zeros(24)

EncodeUint64(v) == Zeros(24) \o PutUint64(v)

DecodeUint64(v) ==
  IF Len(v) # 32 THEN Err("uint64 encoding must contain 32 bytes", U64Of(0))
  ELSE LET padding == Slice(v, 0, 24)
           data == Slice(v, 24, 32)
       IN  IF isNonZero(padding)
           THEN Err("padding contains non-zero values", U64Of(0))
           ELSE Ok(BigEndianUint64(data))

(***************************************************************************)
(* Alignment utilities.                                                    *)
(***************************************************************************)
\* a small int as a number
I64Int(a) ==
  IF I64Neg(a) THEN -((Limb - 1 - a[1]) + Limb * (Limb - 1 - a[2]) + 1)
  ELSE U64Int(a)

\* padRight with the zeros in front of the data
padRight_ZerosFirst(data, length) ==
  IF length < Len(data)
  THEN Err("length " \o ToString(length) \o " smaller than input "
           \o ToString(Len(data)), <<>>)
  ELSE Ok(Zeros(length - Len(data)) \o data)

padRight(data, length) ==
  IF length < Len(data)
  THEN Err("length " \o ToString(length) \o " smaller than input "
           \o ToString(Len(data)), <<>>)
  ELSE Ok(MakeCopy(length, data))

SliceHeader == Zeros(31) \o <<32>>

\* nextMultipleOf32 without the second % 32: a multiple of 32 gets 32 more
nextMultipleOf32_NoMod(n) ==
  LET remainder == I64Rem32(n)
  IN  U64Add(n, I64Of(32 - remainder))

\* nextMultipleOf32 rounding towards zero: n - remainder
nextMultipleOf32_RoundDown(n) ==
  LET remainder == I64Rem32(n)
  IN  U64Add(n, I64Of(-remainder))

\* n is an int: n + (32-remainder)%32 wraps around like Go's int
nextMultipleOf32(n) ==
  LET remainder == I64Rem32(n)
  IN  U64Add(n, I64Of(GoRem(32 - remainder, 32)))

(***************************************************************************)
(* The bytes codec.                                                        *)
(***************************************************************************)
EncodeBytes(v) ==
  LET vLen == Len(v)
      head == EncodeUint64(U64Of(vLen))
      tail == padRight(v, I64Int(nextMultipleOf32(I64Of(vLen))))
  IN  IF tail.st # "ok" THEN Wrap("padding, ", tail, <<>>)
      ELSE Ok(head \o tail.val)

\* DecodeBytes looking at the content of the padding before its length
DecodeBytes_PaddingContentFirst(abiEncoded) ==
  LET abiEncodedLen == Len(abiEncoded)
  IN  IF abiEncodedLen < 32 THEN Err("not long enough to have a head", <<>>)
      ELSE IF abiEncodedLen % 32 # 0
      THEN Err("invalid length '" \o ToString(abiEncodedLen)
               \o "' not 32-byte aligned", <<>>)
      ELSE
        LET head == Slice(abiEncoded, 0, 32)
            tail == Slice(abiEncoded, 32, abiEncodedLen)
            dataLen == DecodeUint64(head)
        IN  IF dataLen.st # "ok"
            THEN Wrap("decoding data length, ", dataLen, <<>>)
            ELSE IF U64Lt(U64Of(Len(tail)), dataLen.val)
            THEN Err("length in head is out of range", <<>>)
            ELSE
              LET n == U64Int(dataLen.val)
                  data == Slice(tail, 0, n)
                  padding == Slice(tail, n, Len(tail))
              IN  IF isNonZero(padding)
                  THEN Err("padding contains non-zero values", <<>>)
                  ELSE IF Len(padding) >= 32
                  THEN Err("invalid padding length '"
                           \o ToString(Len(padding)) \o "'", <<>>)
                  ELSE Ok(MakeCopy(n, data))

DecodeBytes(abiEncoded) ==
  LET abiEncodedLen == Len(abiEncoded)
  IN  IF abiEncodedLen < 32 THEN Err("not long enough to have a head", <<>>)
      ELSE IF abiEncodedLen % 32 # 0
      THEN Err("invalid length '" \o ToString(abiEncodedLen)
               \o "' not 32-byte aligned", <<>>)
      ELSE
        LET head == Slice(abiEncoded, 0, 32)
            tail == Slice(abiEncoded, 32, abiEncodedLen)
            dataLen == DecodeUint64(head)
        IN  IF dataLen.st # "ok"
            THEN Wrap("decoding data length, ", dataLen, <<>>)
            ELSE IF U64Lt(U64Of(Len(tail)), dataLen.val)
            THEN Err("length in head is out of range", <<>>)
            ELSE
              LET n == U64Int(dataLen.val)
                  data == Slice(tail, 0, n)
                  padding == Slice(tail, n, Len(tail))
              IN  IF Len(padding) >= 32
                  THEN Err("invalid padding length '"
                           \o ToString(Len(padding)) \o "'", <<>>)
                  ELSE IF isNonZero(padding)
                  THEN Err("padding contains non-zero values", <<>>)
                  ELSE Ok(MakeCopy(n, data))

(***************************************************************************)
(* The slice-of-bytes codec.                                               *)
(***************************************************************************)
\* the loop of EncodeSliceOfBytes with an offset that stays where it started
RECURSIVE EncodeSliceLoop_OffsetKept(_, _, _, _, _)
EncodeSliceLoop_OffsetKept(v, i, offset, head, tail) ==
  IF i > Len(v) THEN Ok(head \o tail)
  ELSE LET encoded == EncodeBytes(v[i])
       IN  IF encoded.st # "ok"
           THEN Wrap("encoding element " \o ToString(i - 1) \o ", ", encoded, <<>>)
           ELSE EncodeSliceLoop_OffsetKept(v, i + 1, offset,
                                           head \o EncodeUint64(offset),
                                           tail \o encoded.val)

\* the loop of EncodeSliceOfBytes from element i (counted from 1) on
RECURSIVE EncodeSliceLoop(_, _, _, _, _)
EncodeSliceLoop(v, i, offset, head, tail) ==
  IF i > Len(v) THEN Ok(head \o tail)
  ELSE LET encoded == EncodeBytes(v[i])
       IN  IF encoded.st # "ok"
           THEN Wrap("encoding element " \o ToString(i - 1) \o ", ", encoded, <<>>)
           ELSE EncodeSliceLoop(v, i + 1,
                                U64Add(offset, U64Of(Len(encoded.val))),
                                head \o EncodeUint64(offset),
                                tail \o encoded.val)

\* EncodeSliceOfBytes with offsets counted from the start of the buffer
EncodeSliceOfBytes_FromBufferStart(v) ==
  LET vLen == U64Of(Len(v))
  IN  EncodeSliceLoop(v, 1, U64Add(U64Mul(32, vLen), U64Of(64)),
                      SliceHeader \o EncodeUint64(vLen), <<>>)

EncodeSliceOfBytes(v) ==
  LET vLen == U64Of(Len(v))
  IN  EncodeSliceLoop(v, 1, U64Mul(32, vLen),
                      SliceHeader \o EncodeUint64(vLen), <<>>)

\* make([]uint64, n) of the Go runtime: a length above maxAlloc/8 = 2^45
\* (or one that is no int) panics
MakeSliceFails(n) == U64Lt(<<0, 0, 32 * 256, 0>>, n)

\* the first loop of DecodeSliceOfBytes from index i (counted from 0) on:
\* the offsets read so far, or the error
RECURSIVE DecodeOffsets(_, _, _, _)
DecodeOffsets(tail, eltCount, i, offsets) ==
  IF i >= eltCount THEN Ok(offsets \o <<U64Of(Len(tail))>>)
  ELSE LET offset == DecodeUint64(Slice(tail, i * 32, (i + 1) * 32))
       IN  IF offset.st # "ok"
           THEN Wrap("decoding offset for index " \o ToString(i) \o ", ",
                     offset, <<>>)
           ELSE IF U64Le(U64Of(Len(tail)), offset.val)
           THEN Err("offset at index " \o ToString(i) \o " out of bounds", <<>>)
           ELSE DecodeOffsets(tail, eltCount, i + 1, offsets \o <<offset.val>>)

\* the second loop reading the offsets from the last to the first: element i
\* is decoded from the range of element eltCount-1-i
RECURSIVE DecodeElements_Reversed(_, _, _, _, _)
DecodeElements_Reversed(tail, eltCount, offsets, i, results) ==
  IF i >= eltCount THEN Ok(results)
  ELSE LET start == offsets[eltCount - i]
           end == offsets[eltCount - i + 1]
       IN  IF U64Le(end, start)
           THEN Err("start " \o U64Str(start) \o " greater than end "
                    \o U64Str(end), <<>>)
           ELSE LET elt == DecodeBytes(Slice(tail, U64Int(start), U64Int(end)))
                IN  IF elt.st # "ok"
                    THEN Wrap("decoding element " \o ToString(i) \o ", ", elt, <<>>)
                    ELSE DecodeElements_Reversed(tail, eltCount, offsets, i + 1,
                                                 results \o <<elt.val>>)

\* the second loop without the comparison of start and end: a range that
\* is inverted reaches the slice expression tail[start:end]
RECURSIVE DecodeElements_NoOrderCheck(_, _, _, _, _)
DecodeElements_NoOrderCheck(tail, eltCount, offsets, i, results) ==
  IF i >= eltCount THEN Ok(results)
  ELSE LET start == offsets[i + 1]
           end == offsets[i + 2]
       IN  IF U64Lt(end, start)
           THEN Panic("runtime error: slice bounds out of range", <<>>)
           ELSE LET elt == DecodeBytes(Slice(tail, U64Int(start), U64Int(end)))
                IN  IF elt.st # "ok"
                    THEN Wrap("decoding element " \o ToString(i) \o ", ", elt, <<>>)
                    ELSE DecodeElements_NoOrderCheck(tail, eltCount, offsets,
                                                     i + 1, results \o <<elt.val>>)

\* the second loop of DecodeSliceOfBytes from index i (counted from 0) on
RECURSIVE DecodeElements(_, _, _, _, _)
DecodeElements(tail, eltCount, offsets, i, results) ==
  IF i >= eltCount THEN Ok(results)
  ELSE LET start == offsets[i + 1]
           end == offsets[i + 2]
       IN  IF U64Le(end, start)
           THEN Err("start " \o U64Str(start) \o " greater than end "
                    \o U64Str(end), <<>>)
           ELSE LET elt == DecodeBytes(Slice(tail, U64Int(start), U64Int(end)))
                IN  IF elt.st # "ok"
                    THEN Wrap("decoding element " \o ToString(i) \o ", ", elt, <<>>)
                    ELSE DecodeElements(tail, eltCount, offsets, i + 1,
                                        results \o <<elt.val>>)

\* DecodeSliceOfBytes comparing the type tag before it decodes the count
DecodeSliceOfBytes_TypeFirst(abiEncoded) ==
  LET abiEncodedLen == Len(abiEncoded)
  IN  IF abiEncodedLen < 64 THEN Err("not long enough to have a head", <<>>)
      ELSE IF abiEncodedLen % 32 # 0
      THEN Err("invalid length '" \o ToString(abiEncodedLen)
               \o "' not 32-byte aligned", <<>>)
      ELSE
        LET head == Slice(abiEncoded, 0, 64)
            tail == Slice(abiEncoded, 64, abiEncodedLen)
            tailLen == U64Of(Len(tail))
            typeBytes == Slice(head, 0, 32)
            eltCountBytes == Slice(head, 32, 64)
            eltCount == DecodeUint64(eltCountBytes)
        IN  IF typeBytes # SliceHeader THEN Err("not a slice type", <<>>)
            ELSE IF eltCount.st # "ok"
            THEN Wrap("decoding element count, ", eltCount, <<>>)
            ELSE
              LET offsetsLen == U64Mul(32, eltCount.val)
              IN  IF U64Lt(tailLen, offsetsLen)
                  THEN Err("tail too short for " \o U64Str(eltCount.val)
                           \o " elements", <<>>)
                  ELSE IF MakeSliceFails(U64Add(eltCount.val, U64Of(1)))
                  THEN Panic("runtime error: makeslice: len out of range", <<>>)
                  ELSE
                    LET k == U64Int(eltCount.val)
                        offsets == DecodeOffsets(tail, k, 0, <<>>)
                    IN  IF offsets.st # "ok" THEN offsets
                        ELSE DecodeElements(tail, k, offsets.val, 0, <<>>)

DecodeSliceOfBytes(abiEncoded) ==
  LET abiEncodedLen == Len(abiEncoded)
  IN  IF abiEncodedLen < 64 THEN Err("not long enough to have a head", <<>>)
      ELSE IF abiEncodedLen % 32 # 0
      THEN Err("invalid length '" \o ToString(abiEncodedLen)
               \o "' not 32-byte aligned", <<>>)
      ELSE
        LET head == Slice(abiEncoded, 0, 64)
            tail == Slice(abiEncoded, 64, abiEncodedLen)
            tailLen == U64Of(Len(tail))
            typeBytes == Slice(head, 0, 32)
            eltCountBytes == Slice(head, 32, 64)
            eltCount == DecodeUint64(eltCountBytes)
        IN  IF eltCount.st # "ok"
            THEN Wrap("decoding element count, ", eltCount, <<>>)
            ELSE
              LET offsetsLen == U64Mul(32, eltCount.val)
              IN  IF typeBytes # SliceHeader THEN Err("not a slice type", <<>>)
                  ELSE IF U64Lt(tailLen, offsetsLen)
                  THEN Err("tail too short for " \o U64Str(eltCount.val)
                           \o " elements", <<>>)
                  ELSE IF MakeSliceFails(U64Add(eltCount.val, U64Of(1)))
                  THEN Panic("runtime error: makeslice: len out of range", <<>>)
                  ELSE
                    LET k == U64Int(eltCount.val)
                        offsets == DecodeOffsets(tail, k, 0, <<>>)
                    IN  IF offsets.st # "ok" THEN offsets
                        ELSE DecodeElements(tail, k, offsets.val, 0, <<>>)

(***************************************************************************)
(* The tuple codec.  An encode unit is the closure made by                 *)
(* EncodeTupleFuncUint64 or EncodeTupleFuncBytes, a record of its kind and *)
(* the value it captured; a decode unit is a record of its kind and the    *)
(* destination (an index of dest) its pointer refers to.                   *)
(***************************************************************************)
EncoderResult(indirect, data) == [indirect |-> indirect, data |-> data]

EncodeTupleFuncUint64(v) == [kind |-> "uint64", v |-> v]

EncodeTupleFuncBytes(v) == [kind |-> "bytes", v |-> v]

\* an EncoderFunc the caller wrote, which returns the error numbered v[1]
EncoderFuncFailing(v) == [kind |-> "failing", v |-> v]

\* the call encode() of an EncoderFunc
RunEncoderFunc(encode) ==
  IF encode.kind = "uint64"
  THEN Ok(EncoderResult(FALSE, EncodeUint64(encode.v)))
  ELSE IF encode.kind = "failing"
  THEN Err("unit error " \o ToString(encode.v[1]), EncoderResult(FALSE, <<>>))
  ELSE LET data == EncodeBytes(encode.v)
       IN  IF data.st # "ok"
           THEN Wrap("encoding: ", data, EncoderResult(FALSE, <<>>))
           ELSE Ok(EncoderResult(TRUE, data.val))

\* the loop of EncodeTuple with an offset that stays where it started
RECURSIVE EncodeTupleLoop_OffsetKept(_, _, _, _, _)
EncodeTupleLoop_OffsetKept(encoders, i, offset, head, tail) ==
  IF i > Len(encoders) THEN [r |-> Ok(head \o tail), ran |-> i - 1]
  ELSE LET result == RunEncoderFunc(encoders[i])
       IN  IF result.st # "ok"
           THEN [r |-> Wrap("encoding: ", result, <<>>), ran |-> i - 1]
           ELSE IF ~result.val.indirect
           THEN EncodeTupleLoop_OffsetKept(encoders, i + 1, offset,
                                           head \o result.val.data, tail)
           ELSE EncodeTupleLoop_OffsetKept(encoders, i + 1, offset,
                                           head \o EncodeUint64(offset),
                                           tail \o result.val.data)

\* the loop of EncodeTuple naming a failing unit by its index, as DecodeTuple
\* does
RECURSIVE EncodeTupleLoop_NamesIndex(_, _, _, _, _)
EncodeTupleLoop_NamesIndex(encoders, i, offset, head, tail) ==
  IF i > Len(encoders) THEN [r |-> Ok(head \o tail), ran |-> i - 1]
  ELSE LET result == RunEncoderFunc(encoders[i])
       IN  IF result.st # "ok"
           THEN [r |-> Wrap("encoding element " \o ToString(i - 1) \o ": ",
                            result, <<>>),
                 ran |-> i - 1]
           ELSE IF ~result.val.indirect
           THEN EncodeTupleLoop_NamesIndex(encoders, i + 1, offset,
                                           head \o result.val.data, tail)
           ELSE EncodeTupleLoop_NamesIndex(encoders, i + 1,
                                U64Add(offset, U64Of(Len(result.val.data))),
                                head \o EncodeUint64(offset),
                                tail \o result.val.data)

\* the loop of EncodeTuple from unit i (counted from 1) on: the outcome, and
\* ran, the number of units that were invoked and returned nil
RECURSIVE EncodeTupleLoop(_, _, _, _, _)
EncodeTupleLoop(encoders, i, offset, head, tail) ==
  IF i > Len(encoders) THEN [r |-> Ok(head \o tail), ran |-> i - 1]
  ELSE LET result == RunEncoderFunc(encoders[i])
       IN  IF result.st # "ok"
           THEN [r |-> Wrap("encoding: ", result, <<>>), ran |-> i - 1]
           ELSE IF ~result.val.indirect
           THEN EncodeTupleLoop(encoders, i + 1, offset,
                                head \o result.val.data, tail)
           ELSE EncodeTupleLoop(encoders, i + 1,
                                U64Add(offset, U64Of(Len(result.val.data))),
                                head \o EncodeUint64(offset),
                                tail \o result.val.data)

\* EncodeTuple with offsets counted from the start of the tail
EncodeTuple_FromTailStart(encoders) ==
  EncodeTupleLoop(encoders, 1, U64Of(0), <<>>, <<>>)

EncodeTuple(encoders) ==
  EncodeTupleLoop(encoders, 1, U64Of(32 * Len(encoders)), <<>>, <<>>)

DecodeTupleFuncUint64(dst) == [kind |-> "uint64", dst |-> dst]

DecodeTupleFuncBytes(dst) == [kind |-> "bytes", dst |-> dst]

\* the body of the closure of DecodeTupleFuncUint64: the outcome, val the
\* value stored through the pointer
RunDecodeUint64(cur, full) ==
  Wrap("decoding: ", DecodeUint64(cur), U64Of(0))

\* the body of the closure of DecodeTupleFuncBytes
RunDecodeBytes(cur, full) ==
  LET offset == DecodeUint64(cur)
      fullLen == U64Of(Len(full))
  IN  IF offset.st # "ok" THEN Wrap("decoding offset: ", offset, <<>>)
      ELSE LET high == U64Add(offset.val, U64Of(32))
           IN
      IF U64Lt(fullLen, high) THEN Err("offset+32 out of bounds", <<>>)
      ELSE IF U64Lt(high, offset.val)
      THEN Panic("runtime error: slice bounds out of range", <<>>)
      ELSE
        LET byteCountBytes == Slice(full, U64Int(offset.val), U64Int(high))
            byteCount == DecodeUint64(byteCountBytes)
        IN  IF byteCount.st # "ok"
            THEN Wrap("decoding length : ", byteCount, <<>>)
            ELSE
              LET alignedByteCount == nextMultipleOf32(byteCount.val)
                  start == offset.val
                  end == U64Add(U64Add(start, U64Of(32)), alignedByteCount)
              IN  IF I64Lt(fullLen, end) THEN Err("end is out of bounds", <<>>)
                  ELSE IF I64Neg(end) \/ I64Lt(end, start)
                  THEN Panic("runtime error: slice bounds out of range", <<>>)
                  ELSE Wrap("decoding bytes: ",
                            DecodeBytes(Slice(full, U64Int(start), U64Int(end))),
                            <<>>)

\* the call decode(cur, full) of a DecoderFunc
RunDecoderFunc(decode, cur, full) ==
  IF decode.kind = "uint64" THEN RunDecodeUint64(cur, full)
  ELSE RunDecodeBytes(cur, full)

\* the loop of DecodeTuple naming a failing unit by its number counted
\* from 1
RECURSIVE DecodeTupleLoop_CountFromOne(_, _, _, _)
DecodeTupleLoop_CountFromOne(data, decoders, i, dst) ==
  IF i >= Len(decoders) THEN [r |-> Ok(<<>>), dest |-> dst, ran |-> i]
  ELSE LET cur == Slice(data, i * 32, (i + 1) * 32)
           r == RunDecoderFunc(decoders[i + 1], cur, data)
       IN  IF r.st # "ok"
           THEN [r |-> Wrap("decoding element " \o ToString(i + 1) \o ": ", r,
                            <<>>),
                 dest |-> dst, ran |-> i]
           ELSE DecodeTupleLoop_CountFromOne(data, decoders, i + 1,
                                [dst EXCEPT ![decoders[i + 1].dst] = r.val])

\* the loop of DecodeTuple with units that store what they decoded before
\* they look at the error
RECURSIVE DecodeTupleLoop_StoreFirst(_, _, _, _)
DecodeTupleLoop_StoreFirst(data, decoders, i, dst) ==
  IF i >= Len(decoders) THEN [r |-> Ok(<<>>), dest |-> dst, ran |-> i]
  ELSE LET cur == Slice(data, i * 32, (i + 1) * 32)
           r == RunDecoderFunc(decoders[i + 1], cur, data)
           stored == [dst EXCEPT ![decoders[i + 1].dst] = r.val]
       IN  IF r.st # "ok"
           THEN [r |-> Wrap("decoding element " \o ToString(i) \o ": ", r, <<>>),
                 dest |-> stored, ran |-> i]
           ELSE DecodeTupleLoop_StoreFirst(data, decoders, i + 1, stored)

\* the loop of DecodeTuple from unit i (counted from 0) on: the outcome and
\* the destinations as the units left them, and ran, the number of units
\* that returned nil.  DecodeTuple returns an error only
RECURSIVE DecodeTupleLoop(_, _, _, _)
DecodeTupleLoop(data, decoders, i, dst) ==
  IF i >= Len(decoders) THEN [r |-> Ok(<<>>), dest |-> dst, ran |-> i]
  ELSE LET cur == Slice(data, i * 32, (i + 1) * 32)
           r == RunDecoderFunc(decoders[i + 1], cur, data)
       IN  IF r.st # "ok"
           THEN [r |-> Wrap("decoding element " \o ToString(i) \o ": ", r, <<>>),
                 dest |-> dst, ran |-> i]
           ELSE DecodeTupleLoop(data, decoders, i + 1,
                                [dst EXCEPT ![decoders[i + 1].dst] = r.val])

DecodeTuple(data, decoders, dst) ==
  IF Len(decoders) = 0
  THEN [r |-> Err("no decoders provided", <<>>), dest |-> dst, ran |-> 0]
  ELSE IF Len(data) < 32 * Len(decoders)
  THEN [r |-> Err("not long enough to support all decoders", <<>>),
        dest |-> dst, ran |-> 0]
  ELSE DecodeTupleLoop(data, decoders, 0, dst)

(***************************************************************************)
(* The values the caller draws its inputs from.                            *)
(***************************************************************************)
MaxUint64 == <<Limb - 1, Limb - 1, Limb - 1, Limb - 1>>

\* 0x0102030405060708: no two bytes alike
Bytes1To8 == <<7 * 256 + 8, 5 * 256 + 6, 3 * 256 + 4, 1 * 256 + 2>>

\* 0, 1, 3, 255, 256, 2^16, 2^32-1, 2^32, 2^63-1, 2^63, 2^64-1 and Bytes1To8
U64Vals ==
  {U64Of(0), U64Of(1), U64Of(3), U64Of(255), U64Of(256), U64Of(Limb),
   <<Limb - 1, Limb - 1, 0, 0>>, <<0, 0, 1, 0>>,
   <<Limb - 1, Limb - 1, Limb - 1, 128 * 256 - 1>>, <<0, 0, 0, 128 * 256>>,
   MaxUint64, Bytes1To8}

\* n bytes ending n-1, ..., 1, 0
Ramp(n) == [i \in 1..n |-> (n - i) % 256]

ByteVals == {Ramp(n) : n \in {0, 1, MaxLen - 1, MaxLen}}

SeqsUpTo(S, k) == UNION {[1..n -> S] : n \in 0..k}

EncodeUnits ==
  {EncodeTupleFuncUint64(v) : v \in {MaxUint64, Bytes1To8}}
    \cup {EncodeTupleFuncBytes(b) : b \in ByteVals}
    \cup {EncoderFuncFailing(<<1>>), EncoderFuncFailing(<<2>>)}

\* the words a buffer received from the wire is made of: the encodings of
\* 0, 1, 32, 2^59, 2^64-64 and 2^64-1, and a word of payload
WireWords ==
  {EncodeUint64(v) : v \in {U64Of(0), U64Of(1), U64Of(32), <<0, 0, 0, 2048>>,
                            <<Limb - 64, Limb - 1, Limb - 1, Limb - 1>>,
                            MaxUint64}}
    \cup {<<93>> \o Zeros(31)}

\* the zero value of the destination of a decode unit
ZeroValue(kind) == IF kind = "uint64" THEN U64Of(0) ELSE <<>>

(***************************************************************************)
(* The state: the byte buffer the caller holds, how that buffer was made,  *)
(* the last call, its outcome, the destinations of the decode units of the *)
(* last DecodeTuple, and the number of those units that returned nil.      *)
(* Of the caller that works with references: mem, the byte arrays and the  *)
(* uint64 variable it owns; enc and dec, the unit lists of its             *)
(* TupleEncoder and TupleDecoder; decls, what it declared on them so far.  *)
(***************************************************************************)
VARIABLES buf, made, call, out, dest, ran, mem, enc, dec, decls

vars == <<buf, made, call, out, dest, ran, mem, enc, dec, decls>>

\* the state of the caller that works with references
caller == <<mem, enc, dec, decls>>

\* a caller that owns no array and built nothing
NoMem == [a |-> <<>>, x |-> U64Of(0), input |-> <<>>, dst |-> <<>>]
NoDecls == [enc |-> <<>>, dec |-> <<>>, encoded |-> FALSE, decoded |-> FALSE]

\* a call and its argument; dst is what the destinations of the decode units
\* of a DecodeTuple held before the call
Op(name, arg) == [op |-> name, arg |-> arg, dst |-> <<>>]

Init ==
  /\ buf = <<>>
  /\ made = Op("wire", <<>>)
  /\ call = Op("none", <<>>)
  /\ out = Ok(<<>>)
  /\ dest = <<>>
  /\ ran = 0
  /\ mem = NoMem
  /\ enc = <<>>
  /\ dec = <<>>
  /\ decls = NoDecls

\* The codec keeps no state between calls, so what an encoder returns does
\* not depend on the state it is called in: the encoders are called by a
\* caller that holds no buffer yet, which reaches every state a call made
\* later would reach.
NoBuffer == buf = <<>>

CallEncodeUint64(v) ==
  /\ NoBuffer
  /\ out' = Ok(EncodeUint64(v))
  /\ buf' = out'.val
  /\ made' = Op("EncodeUint64", v)
  /\ call' = Op("EncodeUint64", v)
  /\ dest' = <<>>
  /\ ran' = 0
  /\ UNCHANGED caller

CallEncodeBytes(v) ==
  /\ NoBuffer
  /\ out' = EncodeBytes(v)
  /\ buf' = out'.val
  /\ made' = Op("EncodeBytes", v)
  /\ call' = Op("EncodeBytes", v)
  /\ dest' = <<>>
  /\ ran' = 0
  /\ UNCHANGED caller

CallEncodeSliceOfBytes(v) ==
  /\ NoBuffer
  /\ out' = EncodeSliceOfBytes(v)
  /\ buf' = out'.val
  /\ made' = Op("EncodeSliceOfBytes", v)
  /\ call' = Op("EncodeSliceOfBytes", v)
  /\ dest' = <<>>
  /\ ran' = 0
  /\ UNCHANGED caller

\* a failing EncodeTuple returns nil: the caller has no buffer made by it
CallEncodeTuple(encoders) ==
  /\ NoBuffer
  /\ out' = EncodeTuple(encoders).r
  /\ buf' = out'.val
  /\ made' = IF out'.st = "ok" THEN Op("EncodeTuple", encoders) ELSE made
  /\ call' = Op("EncodeTuple", encoders)
  /\ dest' = <<>>
  /\ ran' = EncodeTuple(encoders).ran
  /\ UNCHANGED caller

\* nextMultipleOf32 called alone, as the package's own test calls it
CallNextMultipleOf32(n) ==
  /\ NoBuffer
  /\ out' = Ok(nextMultipleOf32(I64Of(n)))
  /\ call' = Op("nextMultipleOf32", I64Of(n))
  /\ made' = Op("wire", <<>>)
  /\ dest' = <<>>
  /\ ran' = 0
  /\ UNCHANGED buf
  /\ UNCHANGED caller

\* The decoders run on the buffer the caller holds.  A decoder leaves that
\* buffer as it is and keeps no state either, so a call after another decoder
\* returned repeats the call made in its place: the caller decodes, or changes,
\* a buffer no decoder has been run on.
NotDecoded ==
  call.op \notin {"DecodeUint64", "DecodeBytes", "DecodeSliceOfBytes", "DecodeTuple"}

CallDecodeUint64 ==
  /\ NotDecoded
  /\ out' = DecodeUint64(buf)
  /\ call' = Op("DecodeUint64", <<>>)
  /\ dest' = <<>>
  /\ ran' = 0
  /\ UNCHANGED <<buf, made>>
  /\ UNCHANGED caller

CallDecodeBytes ==
  /\ NotDecoded
  /\ out' = DecodeBytes(buf)
  /\ call' = Op("DecodeBytes", <<>>)
  /\ dest' = <<>>
  /\ ran' = 0
  /\ UNCHANGED <<buf, made>>
  /\ UNCHANGED caller

CallDecodeSliceOfBytes ==
  /\ NotDecoded
  /\ out' = DecodeSliceOfBytes(buf)
  /\ call' = Op("DecodeSliceOfBytes", <<>>)
  /\ dest' = <<>>
  /\ ran' = 0
  /\ UNCHANGED <<buf, made>>
  /\ UNCHANGED caller

\* the decode units of a call of DecodeTuple: one per kind, unit i bound to
\* destination i
DecodeUnits(kinds) ==
  [i \in 1..Len(kinds) |->
     IF kinds[i] = "uint64" THEN DecodeTupleFuncUint64(i)
     ELSE DecodeTupleFuncBytes(i)]

\* the destinations of the units before the call: each holds its zero value
RECURSIVE ZeroValues(_)
ZeroValues(kinds) ==
  IF kinds = <<>> THEN <<>>
  ELSE <<ZeroValue(Head(kinds))>> \o ZeroValues(Tail(kinds))

\* a value a caller's variable can hold from earlier use
HeldValue(kind) == IF kind = "uint64" THEN U64Of(7) ELSE <<7>>

RECURSIVE HeldValues(_)
HeldValues(kinds) ==
  IF kinds = <<>> THEN <<>>
  ELSE <<HeldValue(Head(kinds))>> \o HeldValues(Tail(kinds))

CallDecodeTuple(kinds, before) ==
  LET got == DecodeTuple(buf, DecodeUnits(kinds), before)
  IN  /\ NotDecoded
      /\ out' = got.r
      /\ dest' = got.dest
      /\ ran' = got.ran
      /\ call' = [Op("DecodeTuple", kinds) EXCEPT !.dst = before]
      /\ UNCHANGED <<buf, made>>
      /\ UNCHANGED caller

\* one more word arrives from the wire
ReceiveWord(w) ==
  /\ NotDecoded
  /\ Len(buf) % 32 = 0
  /\ Len(buf) < 32 * MaxWords
  /\ buf' = buf \o w
  /\ made' = Op("wire", <<>>)
  /\ call' = Op("none", <<>>)
  /\ out' = Ok(<<>>)
  /\ dest' = <<>>
  /\ ran' = 0
  /\ UNCHANGED caller

\* a zero byte is appended to an aligned buffer
AppendZero ==
  /\ NotDecoded
  /\ Len(buf) % 32 = 0
  /\ Len(buf) <= 32 * MaxWords
  /\ buf' = buf \o <<0>>
  /\ made' = Op("wire", <<>>)
  /\ call' = Op("none", <<>>)
  /\ out' = Ok(<<>>)
  /\ dest' = <<>>
  /\ ran' = 0
  /\ UNCHANGED caller

\* the last byte of an aligned buffer is dropped
DropLast ==
  /\ NotDecoded
  /\ Len(buf) % 32 = 0
  /\ Len(buf) > 0
  /\ Len(buf) <= 32 * MaxWords
  /\ buf' = SubSeq(buf, 1, Len(buf) - 1)
  /\ made' = Op("wire", <<>>)
  /\ call' = Op("none", <<>>)
  /\ out' = Ok(<<>>)
  /\ dest' = <<>>
  /\ ran' = 0
  /\ UNCHANGED caller

\* the first two words of the tail of an encoded slice change places
SwapOffsetWords ==
  /\ NotDecoded
  /\ made.op = "EncodeSliceOfBytes"
  /\ Len(buf) >= 128
  /\ buf' = Slice(buf, 0, 64) \o Slice(buf, 96, 128) \o Slice(buf, 64, 96)
               \o Slice(buf, 128, Len(buf))
  /\ made' = Op("SwapOffsetWords", made.arg)
  /\ call' = Op("none", <<>>)
  /\ out' = Ok(<<>>)
  /\ dest' = <<>>
  /\ ran' = 0
  /\ UNCHANGED caller

\* a word of zeros is appended to what an encoder returned
AppendZeroWord ==
  /\ NotDecoded
  /\ made.op \in {"EncodeUint64", "EncodeBytes", "EncodeSliceOfBytes",
                  "EncodeTuple"}
  /\ buf' = buf \o Zeros(32)
  /\ made' = Op("AppendZeroWord", made)
  /\ call' = Op("none", <<>>)
  /\ out' = Ok(<<>>)
  /\ dest' = <<>>
  /\ ran' = 0
  /\ UNCHANGED caller

Next ==
  \/ \E v \in U64Vals : CallEncodeUint64(v)
  \/ \E v \in ByteVals : CallEncodeBytes(v)
  \/ \E v \in SeqsUpTo(ByteVals, MaxElts) : CallEncodeSliceOfBytes(v)
  \/ \E e \in SeqsUpTo(EncodeUnits, MaxUnits) : CallEncodeTuple(e)
  \/ CallDecodeUint64
  \/ CallDecodeBytes
  \/ CallDecodeSliceOfBytes
  \/ \E k \in SeqsUpTo({"uint64", "bytes"}, MaxUnits) :
       \E before \in {ZeroValues(k), HeldValues(k)} : CallDecodeTuple(k, before)
  \/ \E w \in WireWords : ReceiveWord(w)
  \/ AppendZero
  \/ DropLast
  \/ SwapOffsetWords
  \/ AppendZeroWord
  \/ \E n \in -MaxAbs..MaxAbs : CallNextMultipleOf32(n)

Spec == Init /\ [][Next]_vars

(***************************************************************************)
(* The builders, used by a caller that keeps its byte slices and its       *)
(* variables in memory.  A slice is a reference: the array it points into, *)
(* where it starts there, and its length.                                  *)
(***************************************************************************)
SliceOf(obj, off, len) == [obj |-> obj, off |-> off, len |-> len]

\* the bytes a slice shows now
Deref(m, s) == SubSeq(m[s.obj], s.off + 1, s.off + s.len)

\* s[i] = b
Store(m, s, i, b) == [m EXCEPT ![s.obj][s.off + i + 1] = b]

NewTupleEncoder == <<>>

\* Uint64 with the new unit put in front of the list
TupleEncoder_Uint64_InFront(e, v) == <<EncodeTupleFuncUint64(v)>> \o e

\* e.Uint64(v): the list of e after the call
TupleEncoder_Uint64(e, v) == Append(e, EncodeTupleFuncUint64(v))

\* e.Bytes(v): v is the slice the caller passes, kept by the closure
TupleEncoder_Bytes(e, v) == Append(e, EncodeTupleFuncBytes(v))

\* the units with a bytes unit that shows the first byte array the caller
\* made, whatever was written to it since
UnitsInvoked_AtStart(e, m) ==
  [i \in 1..Len(e) |->
     IF e[i].kind = "bytes" THEN EncodeTupleFuncBytes(<<1>>)
     ELSE e[i]]

\* the units of e as they run when they are invoked: the closure of
\* EncodeTupleFuncBytes reads the bytes of its slice then, the closure of
\* EncodeTupleFuncUint64 holds the value it was made with
UnitsInvoked_InMemory(e, m) ==
  [i \in 1..Len(e) |->
     IF e[i].kind = "bytes" THEN EncodeTupleFuncBytes(Deref(m, e[i].v))
     ELSE e[i]]

\* Encode that empties the list of the builder
TupleEncoder_Encode_Consuming(e, m) ==
  [r |-> EncodeTuple(UnitsInvoked_InMemory(e, m)).r,
   ran |-> EncodeTuple(UnitsInvoked_InMemory(e, m)).ran,
   e |-> <<>>]

\* e.Encode(): what it returns, and the list of e after the call
TupleEncoder_Encode(e, m) ==
  [r |-> EncodeTuple(UnitsInvoked_InMemory(e, m)).r,
   ran |-> EncodeTuple(UnitsInvoked_InMemory(e, m)).ran,
   e |-> e]

NewTupleDecoder == <<>>

\* d.Uint64(v), d.Bytes(v): v is the destination, and the list of d after
\* the call
TupleDecoder_Uint64(d, v) == Append(d, DecodeTupleFuncUint64(v))

TupleDecoder_Bytes(d, v) == Append(d, DecodeTupleFuncBytes(v))

\* d.Decode(data): what DecodeTuple returns and leaves in the destinations,
\* and the list of d after the call
TupleDecoder_Decode(d, data, dst) ==
  [got |-> DecodeTuple(data, d, dst), d |-> d]

\* the caller owns one byte array and one uint64 variable
BuilderInit ==
  /\ buf = <<>>
  /\ made = Op("wire", <<>>)
  /\ call = Op("none", <<>>)
  /\ out = Ok(<<>>)
  /\ dest = <<>>
  /\ ran = 0
  /\ mem = [NoMem EXCEPT !.a = <<1>>, !.x = U64Of(1)]
  /\ enc = NewTupleEncoder
  /\ dec = NewTupleDecoder
  /\ decls = NoDecls

\* The decoder reads neither the encoder nor the memory of the caller: the
\* caller encodes first, and turns to its decoder with what Encode returned.
Encoding == dec = <<>> /\ ~decls.decoded

Decoding == ~Encoding \/ call.op = "Encode"

\* the caller changes its uint64 variable
SetX ==
  /\ Encoding
  /\ mem' = [mem EXCEPT !.x = U64Of(2)]
  /\ call' = Op("store", <<>>)
  /\ out' = Ok(<<>>)
  /\ ran' = 0
  /\ UNCHANGED <<buf, made, dest, enc, dec, decls>>

\* the caller writes a[0] = 9
WriteA ==
  /\ Encoding
  /\ mem' = Store(mem, SliceOf("a", 0, Len(mem.a)), 0, 9)
  /\ call' = Op("store", <<>>)
  /\ out' = Ok(<<>>)
  /\ ran' = 0
  /\ UNCHANGED <<buf, made, dest, enc, dec, decls>>

\* enc.Uint64(x)
DeclareEncodeUint64 ==
  /\ Encoding
  /\ Len(enc) < MaxUnits
  /\ enc' = TupleEncoder_Uint64(enc, mem.x)
  /\ decls' = [decls EXCEPT !.enc =
                 Append(@, [kind |-> "uint64", arg |-> mem.x, then |-> mem.x,
                            late |-> decls.encoded])]
  /\ call' = Op("Uint64", <<>>)
  /\ out' = Ok(<<>>)
  /\ ran' = 0
  /\ UNCHANGED <<buf, made, dest, mem, dec>>

\* enc.Bytes(a)
DeclareEncodeBytes ==
  LET a == SliceOf("a", 0, Len(mem.a))
  IN  /\ Encoding
      /\ Len(enc) < MaxUnits
      /\ enc' = TupleEncoder_Bytes(enc, a)
      /\ decls' = [decls EXCEPT !.enc =
                     Append(@, [kind |-> "bytes", arg |-> a,
                                then |-> Deref(mem, a),
                                late |-> decls.encoded])]
      /\ call' = Op("Bytes", <<>>)
      /\ out' = Ok(<<>>)
      /\ ran' = 0
      /\ UNCHANGED <<buf, made, dest, mem, dec>>

\* data, err := enc.Encode()
BuilderEncode ==
  LET got == TupleEncoder_Encode(enc, mem)
  IN  /\ Encoding
      /\ out' = got.r
      /\ ran' = got.ran
      /\ enc' = got.e
      /\ buf' = out'.val
      /\ made' = Op("Encode", <<>>)
      /\ call' = Op("Encode", <<>>)
      /\ decls' = [decls EXCEPT !.encoded = TRUE]
      /\ UNCHANGED <<dest, mem, dec>>

\* dec.Uint64(&v) and dec.Bytes(&v), v a new variable of the caller
DeclareDecode(kind) ==
  /\ Decoding
  /\ Len(dec) < MaxUnits
  /\ dec' = IF kind = "uint64" THEN TupleDecoder_Uint64(dec, Len(dest) + 1)
            ELSE TupleDecoder_Bytes(dec, Len(dest) + 1)
  /\ dest' = Append(dest, ZeroValue(kind))
  /\ decls' = [decls EXCEPT !.dec =
                 Append(@, [kind |-> kind, dst |-> Len(dest) + 1,
                            late |-> decls.decoded])]
  /\ call' = Op(IF kind = "uint64" THEN "Uint64" ELSE "Bytes", <<>>)
  /\ out' = Ok(<<>>)
  /\ ran' = 0
  /\ UNCHANGED <<buf, made, mem, enc>>

\* err := dec.Decode(data)
BuilderDecode ==
  LET did == TupleDecoder_Decode(dec, buf, dest)
  IN  /\ Decoding
      /\ out' = did.got.r
      /\ dest' = did.got.dest
      /\ ran' = did.got.ran
      /\ dec' = did.d
      /\ call' = [Op("Decode", <<>>) EXCEPT !.dst = dest]
      /\ decls' = [decls EXCEPT !.decoded = TRUE]
      /\ UNCHANGED <<buf, made, mem, enc>>

BuilderNext ==
  \/ SetX
  \/ WriteA
  \/ DeclareEncodeUint64
  \/ DeclareEncodeBytes
  \/ BuilderEncode
  \/ \E kind \in {"uint64", "bytes"} : DeclareDecode(kind)
  \/ BuilderDecode

BuilderSpec == BuilderInit /\ [][BuilderNext]_vars

(***************************************************************************)
(* DecodeBytes on a buffer that lies in the memory of the caller, who      *)
(* writes to that buffer and to the slice DecodeBytes returned.            *)
(***************************************************************************)
\* return data itself, a slice of the input
CopyOut_Alias(m, data) == [m |-> m, ret |-> data]

\* dst := make([]byte, dataLen); copy(dst, data); return dst: the memory
\* with the new array in it, and the slice returned
CopyOut(m, data) ==
  [m |-> [m EXCEPT !.dst = MakeCopy(data.len, Deref(m, data))],
   ret |-> SliceOf("dst", 0, data.len)]

\* DecodeBytes(abiEncoded), abiEncoded a slice in the memory m: the outcome,
\* the memory after the call, and the slice returned, <<>> for nil
DecodeBytesIn(m, abiEncoded) ==
  LET r == DecodeBytes(Deref(m, abiEncoded))
      data == SliceOf(abiEncoded.obj, abiEncoded.off + 32, Len(r.val))
  IN  IF r.st # "ok" THEN [r |-> r, m |-> m, ret |-> <<>>]
      ELSE [r |-> r, m |-> CopyOut(m, data).m, ret |-> <<CopyOut(m, data).ret>>]

\* the buffers the caller decodes: the encodings of one and of two bytes
CopyInputs == {EncodeBytes(v).val : v \in {<<1>>, <<1, 2>>}}

\* the places the caller writes to in its buffer: the last byte of the
\* length, the first byte of the data, the last byte of the padding
InputPlaces == {31, 32, 63}

CopyInit ==
  /\ buf = <<>>
  /\ made = Op("wire", <<>>)
  /\ call = Op("none", <<>>)
  /\ out = Ok(<<>>)
  /\ dest = <<>>
  /\ ran = 0
  /\ \E input \in CopyInputs : mem = [NoMem EXCEPT !.input = input]
  /\ enc = <<>>
  /\ dec = <<>>
  /\ decls = NoDecls

\* got, err := DecodeBytes(input); dest holds the slice got
CopyDecodeBytes ==
  LET did == DecodeBytesIn(mem, SliceOf("input", 0, Len(mem.input)))
  IN  /\ out' = did.r
      /\ mem' = did.m
      /\ dest' = did.ret
      /\ call' = Op("DecodeBytes", <<>>)
      /\ UNCHANGED <<buf, made, ran, enc, dec, decls>>

\* input[i] = b
WriteInput(i, b) ==
  /\ i < Len(mem.input)
  /\ mem' = Store(mem, SliceOf("input", 0, Len(mem.input)), i, b)
  /\ call' = Op("write input", <<>>)
  /\ UNCHANGED <<buf, made, out, dest, ran, enc, dec, decls>>

\* got[i] = b
WriteReturned(i, b) ==
  /\ dest # <<>>
  /\ i < dest[1].len
  /\ mem' = Store(mem, dest[1], i, b)
  /\ call' = Op("write returned", <<>>)
  /\ UNCHANGED <<buf, made, out, dest, ran, enc, dec, decls>>

CopyNext ==
  \/ CopyDecodeBytes
  \/ \E i \in InputPlaces, b \in {0, 9} : WriteInput(i, b)
  \/ \E i \in 0..1, b \in {0, 9} : WriteReturned(i, b)

CopySpec == CopyInit /\ [][CopyNext]_vars

(***************************************************************************)
(* Round trips.                                                            *)
(***************************************************************************)
\* A decoder ran on the untouched output of the encoder named.
DecodedOutputOf(decoder, encoder) == call.op = decoder /\ made.op = encoder

\* C1: for every list L of byte sequences, EncodeSliceOfBytes(L) succeeds and
\* DecodeSliceOfBytes of its output succeeds and returns L, element by
\* element and in the same order.
C1_SliceOfBytesRoundTrip ==
  /\ call.op = "EncodeSliceOfBytes" => out.st = "ok"
  /\ DecodedOutputOf("DecodeSliceOfBytes", "EncodeSliceOfBytes")
       => out = Ok(made.arg)

\* a list of an empty and a longer-than-a-word element came back
C1_Witness ==
  /\ DecodedOutputOf("DecodeSliceOfBytes", "EncodeSliceOfBytes")
  /\ out.st = "ok"
  /\ Len(made.arg) >= 2
  /\ made.arg[1] = <<>>
  /\ Len(made.arg[2]) > 32
  /\ out.val = made.arg

\* the encode units are the package's own, for a uint64 or for bytes
CodecUnits(encoders) ==
  \A i \in 1..Len(encoders) : encoders[i].kind \in {"uint64", "bytes"}

\* the kinds and the values of the encode units of a tuple
KindsOf(encoders) == [i \in 1..Len(encoders) |-> encoders[i].kind]
ValuesOf(encoders) == [i \in 1..Len(encoders) |-> encoders[i].v]

\* DecodeTuple ran on the untouched output of EncodeTuple, with decode units
\* of the kinds of the encode units, in their order
DecodedTupleAsEncoded ==
  /\ DecodedOutputOf("DecodeTuple", "EncodeTuple")
  /\ call.arg = KindsOf(made.arg)

\* C2 as stated: for every finite sequence of uint64 and bytes units,
\* EncodeTuple succeeds, and DecodeTuple of its output with decode units of
\* the same kinds in the same order succeeds and leaves every destination
\* equal to the value encoded at its position.
C2_AnySequenceRoundTrip ==
  /\ (call.op = "EncodeTuple" /\ CodecUnits(call.arg)) => out.st = "ok"
  /\ DecodedTupleAsEncoded => (out.st = "ok" /\ dest = ValuesOf(made.arg))

\* C2 as amended: the same for every sequence of at least one unit (with no
\* unit EncodeTuple succeeds too, but DecodeTuple refuses to run).
C2_TupleRoundTrip ==
  /\ (call.op = "EncodeTuple" /\ CodecUnits(call.arg)) => out.st = "ok"
  /\ (DecodedTupleAsEncoded /\ Len(made.arg) > 0)
       => (out.st = "ok" /\ dest = ValuesOf(made.arg))

\* a uint64 after a bytes unit came back, the bytes longer than a word
C2_Witness ==
  /\ DecodedTupleAsEncoded
  /\ call.arg = <<"bytes", "uint64">>
  /\ Len(made.arg[1].v) > 32
  /\ out.st = "ok"
  /\ dest = <<made.arg[1].v, made.arg[2].v>>

\* C3: for every byte sequence b, the empty one included, EncodeBytes(b)
\* succeeds and DecodeBytes of its output succeeds and returns exactly b.
C3_BytesRoundTrip ==
  /\ call.op = "EncodeBytes" => out.st = "ok"
  /\ DecodedOutputOf("DecodeBytes", "EncodeBytes") => out = Ok(made.arg)

\* a whole word of bytes came back
C3_Witness ==
  /\ DecodedOutputOf("DecodeBytes", "EncodeBytes")
  /\ Len(made.arg) % 32 = 0
  /\ Len(made.arg) > 0
  /\ out = Ok(made.arg)

\* C4: for every v in 0..2^64-1, DecodeUint64(EncodeUint64(v)) returns v and
\* no error.
C4_Uint64RoundTrip ==
  DecodedOutputOf("DecodeUint64", "EncodeUint64") => out = Ok(made.arg)

\* 0x0102030405060708 came back
C4_Witness ==
  /\ DecodedOutputOf("DecodeUint64", "EncodeUint64")
  /\ made.arg = Bytes1To8
  /\ out = Ok(Bytes1To8)

(***************************************************************************)
(* Bounds checks of the decoders.                                          *)
(***************************************************************************)
Decoders == {"DecodeUint64", "DecodeBytes", "DecodeSliceOfBytes", "DecodeTuple"}

\* C5: for every input buffer, DecodeBytes, DecodeSliceOfBytes and
\* DecodeTuple return a value or an error: no decoder reads or slices outside
\* the buffer it was given, whatever a length, count or offset word holds.
C5_NoDecoderPanics == call.op \in Decoders => out.st # "panic"

\* DecodeTuple invoked its units: there is at least one, and the buffer holds
\* a head slot for each
UnitsInvoked ==
  /\ call.op = "DecodeTuple"
  /\ Len(call.arg) > 0
  /\ Len(buf) >= 32 * Len(call.arg)

\* unit i (counted from 1) of the last DecodeTuple was invoked: every unit
\* before it returned nil
UnitRan(i) ==
  /\ UnitsInvoked
  /\ i <= (IF out.st = "ok" THEN ran ELSE ran + 1)

\* the head slot of unit i (counted from 1), and the offset it decodes to
HeadSlot(i) == Slice(buf, 32 * (i - 1), 32 * i)
SlotOffset(i) == DecodeUint64(HeadSlot(i))

\* o + 32 > n as mathematical integers, o a uint64 and n a length
OffsetPast(o, n) == n < 32 \/ U64Lt(U64Of(n - 32), o)

\* o + 32 + (the next multiple of 32 of L) > n as mathematical integers, for
\* an offset o with o + 32 <= n and a uint64 L
EndPast(o, L, n) == U64Lt(U64Of(32 * ((n - 32 - o) \div 32)), L)

\* the error DecodeTuple returns when unit i (counted from 1) fails with msg
UnitError(i, msg) ==
  Err("decoding element " \o ToString(i - 1) \o ": " \o msg, <<>>)

\* C6: a bytes decode unit whose head slot decodes to an offset with
\* offset + 32 > len(full), as mathematical integers, returns the error
\* "offset+32 out of bounds" and does not read full at that offset.
C6_OffsetBoundsError ==
  \A i \in 1..Len(call.arg) :
    ( /\ UnitRan(i)
      /\ call.arg[i] = "bytes"
      /\ SlotOffset(i).st = "ok"
      /\ OffsetPast(SlotOffset(i).val, Len(buf)) )
      => out = UnitError(i, "offset+32 out of bounds")

\* the length word a bytes unit reads at its offset o
LengthWord(o) == DecodeUint64(Slice(buf, o, o + 32))

\* C7: a bytes decode unit whose offset is in bounds and whose length word
\* decodes to L returns the error "end is out of bounds" whenever
\* offset + 32 + next_multiple_of_32(L) > len(full), as mathematical
\* integers; it reaches the bytes codec only when that range lies in full.
C7_EndBoundsError ==
  \A i \in 1..Len(call.arg) :
    ( /\ UnitRan(i)
      /\ call.arg[i] = "bytes"
      /\ SlotOffset(i).st = "ok"
      /\ ~OffsetPast(SlotOffset(i).val, Len(buf))
      /\ LengthWord(U64Int(SlotOffset(i).val)).st = "ok"
      /\ EndPast(U64Int(SlotOffset(i).val),
                 LengthWord(U64Int(SlotOffset(i).val)).val, Len(buf)) )
      => out = UnitError(i, "end is out of bounds")

\* the count word of a buffer handed to DecodeSliceOfBytes
CountWord == DecodeUint64(Slice(buf, 32, 64))

\* C8: DecodeSliceOfBytes returns the tail-too-short error for every aligned
\* input of at least 64 bytes with a valid type tag and a validly padded
\* count word whose count c has 32*c > tail length, as mathematical
\* integers; it allocates or decodes no offsets for such a count.
C8_TailTooShort ==
  ( /\ call.op = "DecodeSliceOfBytes"
    /\ Len(buf) >= 64
    /\ Len(buf) % 32 = 0
    /\ Slice(buf, 0, 32) = SliceHeader
    /\ CountWord.st = "ok"
    /\ U64Lt(U64Of((Len(buf) - 64) \div 32), CountWord.val) )
    => out = Err("tail too short for " \o U64Str(CountWord.val) \o " elements",
                 <<>>)

\* C9: every buffer a decoder accepts has a length that is a multiple of 32.
C9_AcceptedIsAligned ==
  (call.op \in Decoders /\ out.st = "ok") => Len(buf) % 32 = 0

\* C10: in every buffer DecodeTuple accepts with n units, the offset in the
\* head slot of each bytes unit addresses the tail of the tuple:
\* 32*n <= offset and offset + 32 <= len(buf).
C10_OffsetsAddressTail ==
  (call.op = "DecodeTuple" /\ out.st = "ok") =>
    \A i \in 1..Len(call.arg) :
      call.arg[i] = "bytes" =>
        /\ U64Le(U64Of(32 * Len(call.arg)), SlotOffset(i).val)
        /\ ~OffsetPast(SlotOffset(i).val, Len(buf))


(***************************************************************************)
(* The ranges DecodeSliceOfBytes decodes its elements from.                *)
(***************************************************************************)
\* the tail of a buffer handed to DecodeSliceOfBytes, and the offset word
\* at index i (counted from 0) of that tail
SliceTail == Slice(buf, 64, Len(buf))
OffsetWord(i) == DecodeUint64(Slice(SliceTail, 32 * i, 32 * (i + 1)))

\* offsets[i] of a slice of k elements, offsets[k] being the tail length
OffsetAt(i, k) == IF i = k THEN U64Of(Len(SliceTail)) ELSE OffsetWord(i).val

\* C11: whenever DecodeSliceOfBytes succeeds with element count k, the k
\* offsets ascend strictly and stay below the tail length, and element i is
\* what the bytes codec decodes from tail[offsets[i]:offsets[i+1]], with
\* offsets[k] the tail length: the ranges are non-empty, disjoint and in
\* index order.
C11_OffsetsAscend ==
  (call.op = "DecodeSliceOfBytes" /\ out.st = "ok") =>
    LET k == Len(out.val)
    IN  /\ CountWord = Ok(U64Of(k))
        /\ \A i \in 0..(k - 1) :
             /\ OffsetWord(i).st = "ok"
             /\ U64Lt(OffsetAt(i, k), OffsetAt(i + 1, k))
             /\ U64Le(OffsetAt(i + 1, k), U64Of(Len(SliceTail)))
             /\ out.val[i + 1] =
                  DecodeBytes(Slice(SliceTail, U64Int(OffsetAt(i, k)),
                                    U64Int(OffsetAt(i + 1, k)))).val

\* a slice of two unlike elements was decoded, the second from the range
\* after the first
C11_Witness ==
  /\ call.op = "DecodeSliceOfBytes"
  /\ out.st = "ok"
  /\ Len(out.val) = 2
  /\ out.val[1] # out.val[2]
  /\ U64Lt(OffsetWord(0).val, OffsetWord(1).val)


(***************************************************************************)
(* The order of the checks of the decoders.                                *)
(***************************************************************************)
\* the length the head word of a buffer declares, read without a check
DeclaredLength == BigEndianUint64(Slice(buf, 24, 32))

\* C12: DecodeBytes reports the first check that fails, in the order: too
\* short (len < 32), alignment (len % 32 # 0), head decode (a non-zero byte
\* in the high 24 bytes of the head word), range (L > len - 32), padding
\* length (len - 32 - L >= 32), padding (a non-zero byte after the first L
\* tail bytes); if none fails it returns exactly buf[32 : 32+L].
C12_DecodeBytesOrder ==
  call.op = "DecodeBytes" =>
    IF Len(buf) < 32
    THEN out = Err("not long enough to have a head", <<>>)
    ELSE IF Len(buf) % 32 # 0
    THEN out = Err("invalid length '" \o ToString(Len(buf))
                   \o "' not 32-byte aligned", <<>>)
    ELSE IF \E i \in 1..24 : buf[i] # 0
    THEN out = Err("decoding data length, padding contains non-zero values",
                   <<>>)
    ELSE IF U64Lt(U64Of(Len(buf) - 32), DeclaredLength)
    THEN out = Err("length in head is out of range", <<>>)
    ELSE LET L == U64Int(DeclaredLength)
         IN  IF Len(buf) - 32 - L >= 32
             THEN out = Err("invalid padding length '"
                            \o ToString(Len(buf) - 32 - L) \o "'", <<>>)
             ELSE IF \E i \in (32 + L + 1)..Len(buf) : buf[i] # 0
             THEN out = Err("padding contains non-zero values", <<>>)
             ELSE out = Ok(SubSeq(buf, 33, 32 + L))

\* a buffer that is unaligned and has a bad head word got the alignment
\* error
C12_Witness ==
  /\ call.op = "DecodeBytes"
  /\ Len(buf) = 33
  /\ buf[1] # 0
  /\ out.st = "err"
  /\ out.err = "invalid length '33' not 32-byte aligned"


\* C13: DecodeUint64 returns the length error for every buffer whose length
\* is not 32, whatever it holds; for a buffer of 32 bytes it returns the
\* padding error iff one of the bytes [0,24) is non-zero; otherwise it
\* returns the big-endian value of the bytes [24,32).
C13_DecodeUint64Checks ==
  call.op = "DecodeUint64" =>
    IF Len(buf) # 32
    THEN out = Err("uint64 encoding must contain 32 bytes", U64Of(0))
    ELSE IF \E i \in 1..24 : buf[i] # 0
    THEN out = Err("padding contains non-zero values", U64Of(0))
    ELSE /\ out.st = "ok"
         /\ \A j \in 1..4 :
              out.val[j] = 256 * buf[33 - 2 * j] + buf[34 - 2 * j]

\* a buffer of 33 bytes with a non-zero first byte got the length error
C13_Witness ==
  /\ call.op = "DecodeUint64"
  /\ Len(buf) = 33
  /\ buf[1] # 0
  /\ out = Err("uint64 encoding must contain 32 bytes", U64Of(0))


\* C14: DecodeSliceOfBytes validates the header in the order: too short
\* (len < 64), alignment (len % 32 # 0), count decode (a count word with
\* non-zero padding), type (a tag word other than SliceHeader()), and
\* reports the first failure; when tag and count word are both invalid it
\* reports the count-decode error.
C14_SliceHeaderOrder ==
  call.op = "DecodeSliceOfBytes" =>
    IF Len(buf) < 64
    THEN out = Err("not long enough to have a head", <<>>)
    ELSE IF Len(buf) % 32 # 0
    THEN out = Err("invalid length '" \o ToString(Len(buf))
                   \o "' not 32-byte aligned", <<>>)
    ELSE IF \E i \in 33..56 : buf[i] # 0
    THEN out = Err("decoding element count, padding contains non-zero values",
                   <<>>)
    ELSE IF SubSeq(buf, 1, 32) # SliceHeader
    THEN out = Err("not a slice type", <<>>)
    ELSE out.err \notin {"not long enough to have a head", "not a slice type"}

\* a buffer whose tag and count word are both invalid got the count-decode
\* error
C14_Witness ==
  /\ call.op = "DecodeSliceOfBytes"
  /\ Len(buf) = 64
  /\ SubSeq(buf, 1, 32) # SliceHeader
  /\ buf[33] # 0
  /\ out = Err("decoding element count, padding contains non-zero values",
               <<>>)


\* C15: for every list [a, b] of two byte sequences, the output of
\* EncodeSliceOfBytes([a, b]) with its two offset words (bytes [64,96) and
\* [96,128)) swapped is rejected by DecodeSliceOfBytes with the ordering
\* error: the start, the offset of b, is greater than the end, 64.
C15_SwappedOffsetsRejected ==
  ( /\ call.op = "DecodeSliceOfBytes"
    /\ made.op = "SwapOffsetWords"
    /\ Len(made.arg) = 2 )
    => out = Err("start "
                 \o ToString(64 + 32 + 32 * ((Len(made.arg[1]) + 31) \div 32))
                 \o " greater than end 64", <<>>)

\* the swapped encoding of an empty and a longer-than-a-word element was
\* rejected
C15_Witness ==
  /\ call.op = "DecodeSliceOfBytes"
  /\ made.op = "SwapOffsetWords"
  /\ Len(made.arg) = 2
  /\ made.arg[1] = <<>>
  /\ Len(made.arg[2]) > 32
  /\ out = Err("start 96 greater than end 64", <<>>)


\* what unit i (counted from 1) of the last DecodeTuple returns when it is
\* given its head slot and the whole buffer
UnitOutcome(i) == RunDecoderFunc(DecodeUnits(call.arg)[i], HeadSlot(i), buf)

\* C16: DecodeTuple fails with the no-decoders error when it is given no
\* unit, whatever the data; otherwise with the too-short error when
\* len(data) < 32*n, and invokes no unit; otherwise it invokes the units in
\* index order, unit i on data[32i : 32i+32] and the whole buffer, stops at
\* the first unit that returns an error, and returns that error wrapped with
\* the index i.
C16_DecodeTupleOrder ==
  call.op = "DecodeTuple" =>
    LET n == Len(call.arg)
    IN  IF n = 0
        THEN /\ out = Err("no decoders provided", <<>>)
             /\ ran = 0
        ELSE IF Len(buf) < 32 * n
        THEN /\ out = Err("not long enough to support all decoders", <<>>)
             /\ ran = 0
             /\ dest = call.dst
        ELSE /\ \A i \in 1..ran : UnitOutcome(i) = Ok(dest[i])
             /\ \A i \in (ran + 1)..n : dest[i] = call.dst[i]
             /\ out.st = "ok" => ran = n
             /\ out.st = "err" =>
                  /\ ran < n
                  /\ UnitOutcome(ran + 1).st = "err"
                  /\ out.err = "decoding element " \o ToString(ran)
                                 \o ": " \o UnitOutcome(ran + 1).err
             /\ out.st = "panic" =>
                  (ran < n /\ UnitOutcome(ran + 1).st = "panic")

\* the second of two units failed after the first stored its value: its
\* error came back with the index 1
C16_Witness ==
  /\ call.op = "DecodeTuple"
  /\ call.arg = <<"uint64", "bytes">>
  /\ ran = 1
  /\ dest = <<U64Of(32), <<>>>>
  /\ out = Err("decoding element 1: decoding offset: "
               \o "padding contains non-zero values", <<>>)


(***************************************************************************)
(* The layout of what the encoders write.                                  *)
(***************************************************************************)
\* EncodeBytes of the bytes units before unit i (counted from 1) of a
\* tuple, back to back in declaration order
RECURSIVE TailBefore(_, _)
TailBefore(encoders, i) ==
  IF i <= 1 THEN <<>>
  ELSE TailBefore(encoders, i - 1)
         \o (IF encoders[i - 1].kind = "bytes"
             THEN EncodeBytes(encoders[i - 1].v).val
             ELSE <<>>)

\* C17: EncodeTuple over n uint64 and bytes units writes n head words and
\* then the tail: the head word of a uint64 unit is EncodeUint64 of its
\* value, the head word of a bytes unit is EncodeUint64 of 32*n plus the
\* lengths of EncodeBytes of the bytes units before it (an offset from the
\* start of the buffer), and the tail is EncodeBytes of the bytes units in
\* declaration order.
C17_TupleLayout ==
  (call.op = "EncodeTuple" /\ CodecUnits(call.arg)) =>
    LET encoders == call.arg
        n == Len(encoders)
    IN  /\ out.st = "ok"
        /\ Len(out.val) >= 32 * n
        /\ \A i \in 1..n :
             SubSeq(out.val, 32 * (i - 1) + 1, 32 * i) =
               IF encoders[i].kind = "uint64"
               THEN EncodeUint64(encoders[i].v)
               ELSE EncodeUint64(U64Of(32 * n + Len(TailBefore(encoders, i))))
        /\ SubSeq(out.val, 32 * n + 1, Len(out.val)) = TailBefore(encoders, n + 1)

\* two bytes units, the first longer than a word: the second head word
\* holds 64 + 96
C17_Witness ==
  /\ call.op = "EncodeTuple"
  /\ Len(call.arg) = 2
  /\ call.arg[1].kind = "bytes"
  /\ call.arg[2].kind = "bytes"
  /\ Len(call.arg[1].v) > 32
  /\ out.st = "ok"
  /\ SubSeq(out.val, 33, 64) = EncodeUint64(U64Of(160))


\* EncodeBytes of the elements before element i (counted from 1) of a list,
\* back to back
RECURSIVE ElementsBefore(_, _)
ElementsBefore(v, i) ==
  IF i <= 1 THEN <<>>
  ELSE ElementsBefore(v, i - 1) \o EncodeBytes(v[i - 1]).val

\* C18: EncodeSliceOfBytes(v) with k = len(v) writes SliceHeader() (31 zero
\* bytes, then 0x20), EncodeUint64(k), k offset words, and EncodeBytes of
\* v[0] .. v[k-1] back to back; offset word i holds 32*k plus the lengths of
\* EncodeBytes of the elements before it: the start of element i counted
\* from the first offset word, not from the start of the buffer.
C18_SliceLayout ==
  call.op = "EncodeSliceOfBytes" =>
    LET v == call.arg
        k == Len(v)
    IN  /\ out.st = "ok"
        /\ Len(out.val) >= 64 + 32 * k
        /\ \A i \in 1..31 : out.val[i] = 0
        /\ out.val[32] = 32
        /\ SubSeq(out.val, 33, 64) = EncodeUint64(U64Of(k))
        /\ \A i \in 1..k :
             /\ SubSeq(out.val, 64 + 32 * (i - 1) + 1, 64 + 32 * i) =
                  EncodeUint64(U64Of(32 * k + Len(ElementsBefore(v, i))))
             /\ SubSeq(out.val,
                       64 + 32 * k + Len(ElementsBefore(v, i)) + 1,
                       64 + 32 * k + Len(ElementsBefore(v, i + 1))) =
                  EncodeBytes(v[i]).val
        /\ Len(out.val) = 64 + 32 * k + Len(ElementsBefore(v, k + 1))

\* a list of two elements, the first longer than a word: the second offset
\* word holds 64 + 96, and the second element starts at byte 64 + 160
C18_Witness ==
  /\ call.op = "EncodeSliceOfBytes"
  /\ Len(call.arg) = 2
  /\ Len(call.arg[1]) > 32
  /\ Len(call.arg[2]) = 1
  /\ out.st = "ok"
  /\ SubSeq(out.val, 97, 128) = EncodeUint64(U64Of(160))
  /\ SubSeq(out.val, 225, 256) = EncodeUint64(U64Of(1))


\* C19: for every byte sequence b, EncodeBytes(b) is EncodeUint64(len(b)),
\* then b, then zero bytes up to the next 32-byte boundary; its length is
\* 32 + next_multiple_of_32(len(b)), a multiple of 32 and at least 32, and
\* a b whose length is a multiple of 32 gets no padding word.
C19_BytesLayout ==
  call.op = "EncodeBytes" =>
    LET b == call.arg
        n == Len(b)
        aligned == 32 * ((n + 31) \div 32)
    IN  /\ out.st = "ok"
        /\ Len(out.val) = 32 + aligned
        /\ Len(out.val) % 32 = 0
        /\ Len(out.val) >= 32
        /\ n % 32 = 0 => Len(out.val) = 32 + n
        /\ SubSeq(out.val, 1, 32) = EncodeUint64(U64Of(n))
        /\ SubSeq(out.val, 33, 32 + n) = b
        /\ \A i \in (32 + n + 1)..Len(out.val) : out.val[i] = 0

\* a whole word of bytes was encoded in two words, its last byte at the end
C19_Witness ==
  /\ call.op = "EncodeBytes"
  /\ Len(call.arg) = 32
  /\ out.st = "ok"
  /\ Len(out.val) = 64
  /\ out.val[32] = 32
  /\ out.val[33] # 0


\* C20: for every v in 0..2^64-1, EncodeUint64(v) is exactly 32 bytes, the
\* bytes [0,24) zero and the bytes [24,32) v in big-endian order; there is
\* no error case.
C20_Uint64Layout ==
  call.op = "EncodeUint64" =>
    /\ out.st = "ok"
    /\ Len(out.val) = 32
    /\ \A i \in 1..24 : out.val[i] = 0
    /\ \A i \in 25..32 : out.val[i] \in 0..255
    /\ \A j \in 1..4 :
         256 * out.val[33 - 2 * j] + out.val[34 - 2 * j] = call.arg[j]

\* 0x0102030405060708 was written as the bytes 1 to 8
C20_Witness ==
  /\ call.op = "EncodeUint64"
  /\ call.arg = Bytes1To8
  /\ out.st = "ok"
  /\ SubSeq(out.val, 25, 32) = <<1, 2, 3, 4, 5, 6, 7, 8>>


(***************************************************************************)
(* Errors of the encoders.                                                 *)
(***************************************************************************)
Encoders == {"EncodeBytes", "EncodeSliceOfBytes", "EncodeTuple"}

\* C21: encoding never fails: EncodeBytes returns no error for every byte
\* sequence, EncodeSliceOfBytes none for every list of byte sequences, and
\* EncodeTuple none for every sequence of uint64 and bytes units; the size
\* error of padRight is not reached from them.
C21_EncodingNeverFails ==
  /\ ( /\ call.op \in Encoders
       /\ call.op = "EncodeTuple" => CodecUnits(call.arg) )
       => (out.st = "ok" /\ out.err = "")
  /\ call.op = "EncodeBytes" =>
       padRight(call.arg, I64Int(nextMultipleOf32(I64Of(Len(call.arg))))).st
         = "ok"

\* a list holding an element one byte longer than a word was encoded
C21_Witness ==
  /\ call.op = "EncodeSliceOfBytes"
  /\ Len(call.arg) >= 1
  /\ Len(call.arg[1]) % 32 = 1
  /\ Len(call.arg[1]) > 32
  /\ out.st = "ok"
  /\ Len(out.val) >= 64 + 32 + 96


(***************************************************************************)
(* Canonical encodings.                                                    *)
(***************************************************************************)
\* C24: DecodeSliceOfBytes accepts canonical encodings only: whenever it
\* succeeds on a buffer and returns the list L, EncodeSliceOfBytes(L) is
\* that buffer, byte for byte.
C24_SliceCanonical ==
  (call.op = "DecodeSliceOfBytes" /\ out.st = "ok")
    => EncodeSliceOfBytes(out.val) = Ok(buf)

\* the encoding of the empty list followed by a word of zeros is accepted
\* as the empty list, whose encoding has 64 bytes
C24_Witness ==
  /\ call.op = "DecodeSliceOfBytes"
  /\ made.op = "AppendZeroWord"
  /\ made.arg = Op("EncodeSliceOfBytes", <<>>)
  /\ Len(buf) = 96
  /\ out = Ok(<<>>)
  /\ EncodeSliceOfBytes(<<>>).val = SubSeq(buf, 1, 64)

\* C25: DecodeBytes accepts canonical encodings only: whenever it succeeds
\* on a buffer and returns b, EncodeBytes(b) is that buffer, byte for byte,
\* so a byte sequence has one accepted encoding.
C25_BytesCanonical ==
  (call.op = "DecodeBytes" /\ out.st = "ok") => EncodeBytes(out.val) = Ok(buf)

\* a buffer received from the wire was accepted as one byte
C25_Witness ==
  /\ call.op = "DecodeBytes"
  /\ made.op = "wire"
  /\ out.st = "ok"
  /\ Len(out.val) = 1
  /\ Len(buf) = 64
  /\ EncodeBytes(out.val).val = buf


(***************************************************************************)
(* What a failing DecodeTuple leaves in the destinations.                  *)
(***************************************************************************)
\* C28: DecodeTuple is not all-or-nothing: when it fails at the unit with
\* index i, the destinations of the units before i hold their decoded
\* values and the destinations of the units from i on hold what they held
\* before the call.
C28_PartialWrites ==
  (call.op = "DecodeTuple" /\ out.st # "ok") =>
    \A j \in 1..Len(call.arg) :
      /\ j <= ran => (UnitOutcome(j).st = "ok" /\ dest[j] = UnitOutcome(j).val)
      /\ j > ran => dest[j] = call.dst[j]

\* the second unit failed after the first one replaced the held value of its
\* destination; the held value of the second one is still there
C28_Witness ==
  /\ call.op = "DecodeTuple"
  /\ Len(call.arg) = 2
  /\ call.dst = HeldValues(call.arg)
  /\ out.st = "err"
  /\ ran = 1
  /\ dest[1] # call.dst[1]
  /\ dest[1] # ZeroValue(call.arg[1])
  /\ dest[2] = HeldValue(call.arg[2])


(***************************************************************************)
(* nextMultipleOf32 on any int.                                            *)
(***************************************************************************)
\* C26: nextMultipleOf32(n) is the smallest multiple of 32 that is greater
\* than or equal to n, for negative n too: -33 and -32 give -32, -31..0 give
\* 0, 1..32 give 32; the result r has r % 32 = 0 and n <= r <= n + 31.
C26_NextMultipleOnInts ==
  call.op = "nextMultipleOf32" =>
    LET n == I64Int(call.arg)
        r == I64Int(out.val)
    IN  /\ out.st = "ok"
        /\ out.val = I64Of(r)
        /\ r % 32 = 0
        /\ n <= r
        /\ r <= n + 31
        /\ n \in {-33, -32} => r = -32
        /\ n \in -31..0 => r = 0
        /\ n \in 1..32 => r = 32

\* nextMultipleOf32(-33) returned -32
C26_Witness ==
  /\ call.op = "nextMultipleOf32"
  /\ I64Neg(call.arg)
  /\ I64Int(call.arg) = -33
  /\ I64Int(out.val) = -32


(***************************************************************************)
(* A failing unit of EncodeTuple.                                          *)
(***************************************************************************)
\* the positions (counted from 1) of the units of the last EncodeTuple that
\* return an error
FailingUnits == {i \in 1..Len(call.arg) : RunEncoderFunc(call.arg[i]).st = "err"}

FirstFailing == CHOOSE i \in FailingUnits : \A j \in FailingUnits : i <= j

\* C27: when the encode unit at position i returns an error, EncodeTuple
\* returns no bytes and an error that wraps the error of that unit and names
\* no index, and no unit after position i is invoked.
C27_FailingUnit ==
  (call.op = "EncodeTuple" /\ FailingUnits # {}) =>
    /\ out = Err("encoding: " \o RunEncoderFunc(call.arg[FirstFailing]).err, <<>>)
    /\ ran = FirstFailing - 1

\* the second of two units failed after a bytes unit was encoded
C27_Witness ==
  /\ call.op = "EncodeTuple"
  /\ Len(call.arg) >= 2
  /\ call.arg[1].kind = "bytes"
  /\ call.arg[2] = EncoderFuncFailing(<<2>>)
  /\ out.st = "err"
  /\ out.err = "encoding: unit error 2"
  /\ out.val = <<>>
  /\ buf = <<>>
  /\ ran = 1



(***************************************************************************)
(* The slice DecodeBytes returns.                                          *)
(***************************************************************************)
\* a successful DecodeBytes returns a slice that shows the decoded bytes and
\* leaves its input alone; a write to that slice leaves the input as it
\* was, and a write to the input leaves the bytes of that slice as they were
ReturnedIsACopy ==
  /\ (call'.op = "DecodeBytes" /\ out'.st = "ok") =>
       /\ Deref(mem', dest'[1]) = out'.val
       /\ mem'.input = mem.input
  /\ call'.op = "write returned" => mem'.input = mem.input
  /\ (call'.op = "write input" /\ dest # <<>>) =>
       Deref(mem', dest'[1]) = Deref(mem, dest[1])

\* C22: the byte sequence a successful DecodeBytes returns is a fresh copy:
\* writing to the returned buffer afterwards leaves the input buffer
\* unchanged, and writing to the input buffer afterwards leaves the returned
\* value unchanged.
C22_FreshCopy == [][ReturnedIsACopy]_vars

\* the caller wrote to the returned slice, which no longer shows what
\* DecodeBytes decoded, and its input still decodes to that
C22_Witness ==
  /\ call.op = "write returned"
  /\ out.st = "ok"
  /\ dest # <<>>
  /\ Deref(mem, dest[1]) # out.val
  /\ DecodeBytes(mem.input) = out

(***************************************************************************)
(* The builders.                                                           *)
(***************************************************************************)
\* the encode units that correspond to the declarations d made on a
\* TupleEncoder, in call order, run in the memory m
DeclaredEncoders(d, m) ==
  [i \in 1..Len(d.enc) |->
     IF d.enc[i].kind = "uint64" THEN EncodeTupleFuncUint64(d.enc[i].arg)
     ELSE EncodeTupleFuncBytes(Deref(m, d.enc[i].arg))]

\* the decode units that correspond to the declarations d made on a
\* TupleDecoder, in call order
DeclaredDecoders(d) ==
  [i \in 1..Len(d.dec) |->
     IF d.dec[i].kind = "uint64" THEN DecodeTupleFuncUint64(d.dec[i].dst)
     ELSE DecodeTupleFuncBytes(d.dec[i].dst)]

\* C23: after any declarations on a TupleEncoder, Encode() returns what
\* EncodeTuple returns for the corresponding units in call order; after any
\* declarations on a TupleDecoder, Decode(data) returns the same error or
\* success as DecodeTuple(data, the corresponding units in call order) and
\* writes the same destinations.  The builders validate nothing themselves.
C23_BuildersDelegate ==
  /\ call.op = "Encode" =>
       /\ out = EncodeTuple(DeclaredEncoders(decls, mem)).r
       /\ ran = EncodeTuple(DeclaredEncoders(decls, mem)).ran
  /\ call.op = "Decode" =>
       LET got == DecodeTuple(buf, DeclaredDecoders(decls), call.dst)
       IN  /\ out = got.r
           /\ dest = got.dest
           /\ ran = got.ran

\* a uint64 and a bytes unit were declared on both builders, and Decode
\* wrote what Encode was given
C23_Witness ==
  /\ call.op = "Decode"
  /\ out.st = "ok"
  /\ Len(decls.enc) = 2
  /\ decls.enc[1].kind = "bytes"
  /\ decls.enc[2].kind = "uint64"
  /\ Len(decls.dec) = 2
  /\ decls.dec[1].kind = "bytes"
  /\ decls.dec[2].kind = "uint64"
  /\ dest = <<mem.a, decls.enc[2].arg>>
  /\ ran = 2

\* the units of the declarations d, a bytes unit with the bytes its slice
\* showed when it was declared
EncodersAsDeclared(d) ==
  [i \in 1..Len(d.enc) |->
     IF d.enc[i].kind = "uint64" THEN EncodeTupleFuncUint64(d.enc[i].then)
     ELSE EncodeTupleFuncBytes(d.enc[i].then)]

\* the units of the declarations d, a bytes unit with the bytes of the array
\* a of the caller as they are in m, a uint64 unit with the value declared
EncodersAsStored(d, m) ==
  [i \in 1..Len(d.enc) |->
     IF d.enc[i].kind = "uint64" THEN EncodeTupleFuncUint64(d.enc[i].then)
     ELSE EncodeTupleFuncBytes(m.a)]

\* C29: a TupleEncoder encodes lazily: Bytes(v) keeps a reference to v, and
\* what Encode() returns holds the bytes v has when Encode() is called, not
\* the bytes it had when Bytes(v) was called; the value of a Uint64(v)
\* declaration is the one of the declaration.
C29_LazyBytes ==
  call.op = "Encode" =>
    /\ out = EncodeTuple(EncodersAsStored(decls, mem)).r
    /\ (\E i \in 1..Len(decls.enc) :
          decls.enc[i].kind = "bytes" /\ decls.enc[i].then # mem.a)
         => out # EncodeTuple(EncodersAsDeclared(decls)).r

\* a was <<1>> and x was 1 when they were declared, a is <<9>> and x is 2
\* when Encode runs: Encode returns the encoding of 1 and of <<9>>
C29_Witness ==
  /\ call.op = "Encode"
  /\ Len(decls.enc) = 2
  /\ decls.enc[1].kind = "uint64"
  /\ decls.enc[1].then = U64Of(1)
  /\ mem.x = U64Of(2)
  /\ decls.enc[2].kind = "bytes"
  /\ decls.enc[2].then = <<1>>
  /\ mem.a = <<9>>
  /\ out.st = "ok"
  /\ out.val[32] = 1
  /\ out.val[97] = 9

\* a terminal call leaves the lists of the builders as they are, Encode()
\* called again at once returns the same bytes, and an Encode() after
\* more declarations covers every unit declared so far
TerminalCallKeepsBuilder ==
  /\ call'.op \in {"Encode", "Decode"} => (enc' = enc /\ dec' = dec)
  /\ (call.op = "Encode" /\ call'.op = "Encode") => out' = out
  /\ call'.op = "Encode" =>
       /\ Len(enc') = Len(decls'.enc)
       /\ out' = EncodeTuple(DeclaredEncoders(decls', mem')).r
  /\ call'.op = "Decode" =>
       /\ Len(dec') = Len(decls'.dec)
       /\ ran' <= Len(decls'.dec)
       /\ out'.st = "ok" => ran' = Len(decls'.dec)

\* C30: the terminal call does not consume or change a builder: Encode()
\* and Decode() leave the list of units as it is, two calls of Encode() in
\* a row return the same bytes, and a declaration made after a terminal call
\* extends the same list, which the next terminal call covers in order.
C30_BuilderNotConsumed == [][TerminalCallKeepsBuilder]_vars

\* Encode() ran, a second unit was declared, and Encode() ran again on both
C30_Witness ==
  /\ call.op = "Encode"
  /\ Len(enc) = 2
  /\ Len(decls.enc) = 2
  /\ ~decls.enc[1].late
  /\ decls.enc[2].late
  /\ out.st = "ok"
  /\ Len(out.val) >= 64

(***************************************************************************)
(* The inputs on which the decoders leave their bounds checks behind.      *)
(***************************************************************************)
\* a tuple of one bytes unit whose head slot holds the offset 2^64-1: the
\* sum offset+32 wraps to 31 and the unit slices full[2^64-1 : 31]
C5_Witness ==
  /\ call.op = "DecodeTuple"
  /\ call.arg = <<"bytes">>
  /\ buf = EncodeUint64(MaxUint64)
  /\ out.st = "panic"

\* a bytes unit ran on an offset past the buffer and DecodeTuple did not
\* return the offset-bounds error
C6_Witness ==
  /\ UnitRan(1)
  /\ call.arg[1] = "bytes"
  /\ SlotOffset(1) = Ok(MaxUint64)
  /\ OffsetPast(SlotOffset(1).val, Len(buf))
  /\ out # UnitError(1, "offset+32 out of bounds")

\* the second unit of a tuple reads offset 0 and, there, the length 2^63:
\* int(byteCount) is negative, end = 32 - 2^63 passes end > len(full), and
\* the unit slices full[0 : end]
C7_Witness ==
  /\ call.op = "DecodeTuple"
  /\ call.arg = <<"uint64", "bytes">>
  /\ buf = EncodeUint64(<<0, 0, 0, 128 * 256>>) \o EncodeUint64(U64Of(0))
  /\ ran = 1
  /\ out.st = "panic"

\* a slice of 2^59 elements in 64 bytes: 32*eltCount wraps to 0, the tail
\* check passes, and make([]uint64, 2^59+1) panics
C8_Witness ==
  /\ call.op = "DecodeSliceOfBytes"
  /\ buf = SliceHeader \o EncodeUint64(<<0, 0, 0, 2048>>)
  /\ out.st = "panic"

\* DecodeTuple with one uint64 unit accepts a buffer of 33 bytes
C9_Witness ==
  /\ call.op = "DecodeTuple"
  /\ call.arg = <<"uint64">>
  /\ Len(buf) = 33
  /\ out.st = "ok"
  /\ dest = <<U64Of(0)>>

\* DecodeTuple with one bytes unit accepts the one-word buffer of zeros: the
\* offset 0 addresses the head slot itself, which is read as the length 0
C10_Witness ==
  /\ call.op = "DecodeTuple"
  /\ call.arg = <<"bytes">>
  /\ buf = Zeros(32)
  /\ out.st = "ok"
  /\ dest = << <<>> >>

=============================================================================
